---- MODULE Spec2Model ----
(***************************************************************************)
(* A model of the TypeScript exercises of the repository:                  *)
(*   calculateShapeArea, sumArray, countWordOccurrences  (problem 1-3)     *)
(*   validateKeys                                        (problem-8.ts)    *)
(* Each exercise is a pure function called from a top-level script.  The   *)
(* state machine is a caller that holds the arguments of one call, runs    *)
(* the function, and records what the call returned.                       *)
(*                                                                         *)
(* Representation of JavaScript values                                     *)
(*   number   fixed point, in units of 1/Unit = 1/400: the value v is the  *)
(*            integer v * 400.  Dimensions are multiples of a quarter,     *)
(*            which IEEE doubles hold exactly, as they hold the products   *)
(*            of two of them (sixteenths) and sums of those.  5 is 2000,   *)
(*            78.54 is 31416, 0.125 is 50.  sumArray's elements are plain  *)
(*            integers (the sum is linear in the unit).                    *)
(*   string   a sequence of one-character strings: "ab" is <<"a", "b">>.   *)
(*   object   a function from its own property names to their values;     *)
(*            object literals inherit from Object.prototype.               *)
(***************************************************************************)
EXTENDS Integers, Sequences, FiniteSets

VARIABLES
    fn,           \* the function the caller calls
    pc,           \* "ready": arguments built, call not made; "done": returned
    shape,        \* calculateShapeArea: the argument
    area,         \* calculateShapeArea: the value returned
    thrown,       \* calculateShapeArea: the error thrown, "none" when it returned
    numbers,      \* sumArray: the argument
    total,        \* sumArray: the value returned
    inputString,  \* countWordOccurrences: first argument
    word,         \* countWordOccurrences: second argument
    count,        \* countWordOccurrences: the value returned
    obj,          \* validateKeys: first argument
    keys,         \* validateKeys: second argument
    valid,        \* validateKeys: the value returned
    tested        \* validateKeys: the number of keys the loop tested

vars == <<fn, pc, shape, area, thrown, numbers, total,
          inputString, word, count, obj, keys, valid, tested>>

-----------------------------------------------------------------------------
(* Bounds of the model *)

MaxRadiusQ == 24    \* radii range over -MaxRadiusQ..MaxRadiusQ quarters
MaxSideQ == 24      \* widths and heights range over -MaxSideQ..MaxSideQ quarters
MaxExtraQ == 1      \* values of a field the variant does not declare, in quarters
MaxNum == 2         \* array elements range over -MaxNum..MaxNum
MaxArrLen == 4      \* longest array
MaxStrLen == 3      \* longest inputString
MaxWordLen == 2     \* longest word
MaxKeys == 3        \* longest keys array

-----------------------------------------------------------------------------
(* JavaScript numbers *)

Unit == 16 * 25                 \* one, in the fixed-point unit
Quarter == Unit \div 4          \* 0.25
Hundredth == Unit \div 100      \* 0.01

\* The decimals of Math.PI = 3.141592653589793 (the double is
\* 3.14159265358979311599...), sixteen of them
PiDigits == <<1, 4, 1, 5, 9, 2, 6, 5, 3, 5, 8, 9, 7, 9, 3, 1>>

Abs(x) == IF x < 0 THEN -x ELSE x

\* The number int.hh (two decimals), e.g. Dec(78, 54) is 78.54
Dec(int, hh) == int * Unit + hh * Hundredth

\* x * y, the product taken in two parts to stay within 32-bit integers
Mul(x, y) == (x \div Unit) * y + ((x % Unit) * y) \div Unit

\* x ** 2
Pow2(x) == Mul(x, x)

\* 0.d1 d2 ... * x for x >= 0, truncated to whole units, digit by digit
RECURSIVE FracTimes(_, _)
FracTimes(ds, x) ==
    IF ds = <<>> THEN 0 ELSE (Head(ds) * x + FracTimes(Tail(ds), x)) \div 10

\* Math.PI * x for x >= 0, truncated to whole units.  The product is no
\* multiple of the unit; what toFixed(2) makes of it depends on its whole
\* units alone, for toFixed(2) rounds at the odd multiples of 0.005, which
\* are whole units.
PiTimes(x) == 3 * x + FracTimes(PiDigits, x)

-----------------------------------------------------------------------------
(* Strings *)

Ascii == <<" ", "!", "\"", "#", "$", "%", "&", "'", "(", ")", "*", "+", ",",
           "-", ".", "/", "0", "1", "2", "3", "4", "5", "6", "7", "8", "9",
           ":", ";", "<", "=", ">", "?", "@", "A", "B", "C", "D", "E", "F",
           "G", "H", "I", "J", "K", "L", "M", "N", "O", "P", "Q", "R", "S",
           "T", "U", "V", "W", "X", "Y", "Z", "[", "\\", "]", "^", "_", "<grave>",
           "a", "b", "c", "d", "e", "f", "g", "h", "i", "j", "k", "l", "m",
           "n", "o", "p", "q", "r", "s", "t", "u", "v", "w", "x", "y", "z",
           "{", "|", "}", "~">>

\* (the entry of code 96, the grave accent, is a placeholder: the lexer of the
\* tools does not read that character, and no string of the model holds it.)
CodeOf == [c \in {Ascii[i] : i \in 1..Len(Ascii)} |->
             31 + CHOOSE i \in 1..Len(Ascii) : Ascii[i] = c]

\* Code units beyond ASCII, written by their code points
EAcute == "<U+00E9>"          \* e with acute accent, a lower-case letter
CapitalIDot == "<U+0130>"     \* capital I with dot above
CombiningDot == "<U+0307>"    \* combining dot above
KelvinSign == "<U+212A>"      \* Kelvin sign

\* The UTF-16 code unit of a one-character string: " " is 32, "~" is 126
Code(c) ==
    IF c \in DOMAIN CodeOf THEN CodeOf[c]
    ELSE CASE c = EAcute -> 233
           [] c = CapitalIDot -> 304
           [] c = CombiningDot -> 775
           [] c = KelvinSign -> 8490

FromCode(n) == Ascii[n - 31]

\* String.prototype.toLowerCase on a string of one code unit.  What it yields
\* is a string: A-Z go to a-z, the Kelvin sign goes to "k", capital I with dot
\* above to the two code units "i" and combining dot above; every other code
\* unit of the model is its own lower case.
CharToLowerCase(c) ==
    IF c = KelvinSign THEN <<"k">>
    ELSE IF c = CapitalIDot THEN <<"i", CombiningDot>>
    ELSE IF Code(c) >= Code("A") /\ Code(c) <= Code("Z")
         THEN <<FromCode(Code(c) + 32)>>
    ELSE <<c>>

\* String.prototype.toLowerCase
RECURSIVE toLowerCase(_)
toLowerCase(s) ==
    IF s = <<>> THEN <<>> ELSE CharToLowerCase(Head(s)) \o toLowerCase(Tail(s))

\* s < t for strings: the order of the code units at the first place where
\* the two differ, a proper prefix coming first
StrLess(s, t) ==
    \E i \in 1..(Len(t)) :
        /\ \A j \in 1..(i - 1) : j <= Len(s) /\ s[j] = t[j]
        /\ i > Len(s) \/ Code(s[i]) < Code(t[i])

\* s <= t for strings
StrLeq(s, t) == s = t \/ StrLess(s, t)

\* The decimal digits of n >= 0, most significant first
RECURSIVE DigitsOf(_)
DigitsOf(n) ==
    IF n < 10 THEN <<FromCode(Code("0") + n)>>
    ELSE Append(DigitsOf(n \div 10), FromCode(Code("0") + (n % 10)))

\* toFixed2 cutting the digits after the second decimal instead of rounding
toFixed2_truncating(x) ==
    LET n == Abs(x) \div Hundredth
        int == DigitsOf(n \div 100)
        frac == <<FromCode(Code("0") + (n % 100) \div 10),
                  FromCode(Code("0") + (n % 10))>>
    IN  (IF x < 0 THEN <<"-">> ELSE <<>>) \o int \o <<".">> \o frac

\* Number.prototype.toFixed(2): the decimal n / 100 nearest to |x| (the larger
\* n on a tie), written with a sign, at least one integer digit, a point and
\* two fraction digits
toFixed2(x) ==
    LET half == Hundredth \div 2
        n == (Abs(x) + half) \div Hundredth
        int == DigitsOf(n \div 100)
        frac == <<FromCode(Code("0") + (n % 100) \div 10),
                  FromCode(Code("0") + (n % 10))>>
    IN  (IF x < 0 THEN <<"-">> ELSE <<>>) \o int \o <<".">> \o frac

IsDigit(c) == Code(c) >= Code("0") /\ Code(c) <= Code("9")

\* The value of a sequence of digits
RECURSIVE DigitsValue(_)
DigitsValue(ds) ==
    IF ds = <<>> THEN 0
    ELSE 10 * DigitsValue(SubSeq(ds, 1, Len(ds) - 1)) + (Code(ds[Len(ds)]) - Code("0"))

\* 10 ** n
RECURSIVE Pow10(_)
Pow10(n) == IF n = 0 THEN 1 ELSE 10 * Pow10(n - 1)

\* parseFloat of a decimal string [-]digits[.digits]
parseFloat(s) ==
    LET neg == s # <<>> /\ s[1] = "-"
        body == IF neg THEN Tail(s) ELSE s
        dots == {i \in 1..Len(body) : body[i] = "."}
        dot == IF dots = {} THEN Len(body) + 1
               ELSE CHOOSE i \in dots : \A j \in dots : i <= j
        int == SubSeq(body, 1, dot - 1)
        frac == SubSeq(body, dot + 1, Len(body))
        v == DigitsValue(int) * Unit + (DigitsValue(frac) * Unit) \div Pow10(Len(frac))
    IN  IF neg THEN -v ELSE v

-----------------------------------------------------------------------------
(* calculateShapeArea *)

\* calculateShapeArea rounding the rectangle's area to 2 decimals as well
calculateShapeArea_roundingRectangle(s) ==
    IF s.shape = "circle"
    THEN parseFloat(toFixed2(PiTimes(Pow2(s.radius))))
    ELSE parseFloat(toFixed2(Mul(s.width, s.height)))

\* calculateShapeArea testing for the tag "rectangle" and taking every other
\* tag for a circle (a missing radius yields NaN, which is no area: -1 here)
calculateShapeArea_testingRectangle(s) ==
    IF s.shape = "rectangle"
    THEN Mul(s.width, s.height)
    ELSE IF "radius" \in DOMAIN s
         THEN parseFloat(toFixed2(PiTimes(Pow2(s.radius))))
         ELSE -1

\* if (shape.shape === "circle")
\*     return parseFloat((Math.PI * shape.radius ** 2).toFixed(2));
\* else return shape.width * shape.height;
calculateShapeArea(s) ==
    IF s.shape = "circle"
    THEN parseFloat(toFixed2(PiTimes(Pow2(s.radius))))
    ELSE Mul(s.width, s.height)

\* The arguments the caller passes.  A circle holds radius, every other variant
\* width and height; a value may also carry the fields of the other variant
\* (TypeScript's structural typing lets it), and the compiled script accepts
\* any tag.
Radii == {q * Quarter : q \in -MaxRadiusQ..MaxRadiusQ}
Sides == {q * Quarter : q \in -MaxSideQ..MaxSideQ}
Extras == {q * Quarter : q \in 0..MaxExtraQ}
OtherTags == {"triangle"}

Circles ==
    {[shape |-> "circle", radius |-> r] : r \in Radii}
    \cup {[shape |-> "circle", radius |-> r, width |-> w, height |-> h] :
            r \in Radii, w \in Extras, h \in Extras}

Rectangles ==
    {[shape |-> t, width |-> w, height |-> h] :
        t \in {"rectangle"} \cup OtherTags, w \in Sides, h \in Sides}
    \cup {[shape |-> t, width |-> w, height |-> h, radius |-> r] :
            t \in {"rectangle"} \cup OtherTags, w \in Sides, h \in Sides, r \in Extras}

Shapes == Circles \cup Rectangles

\* calculateShapeArea({ shape: "circle", radius: 5 })
SampleCircle == [shape |-> "circle", radius |-> 5 * Unit]

\* calculateShapeArea({ shape: "rectangle", width: 4, height: 6 })
SampleRectangle == [shape |-> "rectangle", width |-> 4 * Unit, height |-> 6 * Unit]

NoShape == [shape |-> "none"]

-----------------------------------------------------------------------------
(* sumArray *)

\* Array.prototype.reduce((sum, cur) => sum + cur, sum) from index i on
RECURSIVE reduce(_, _, _)
reduce(arr, i, sum) ==
    IF i > Len(arr) THEN sum ELSE reduce(arr, i + 1, sum + arr[i])

\* sumArray starting at the second element
sumArray_skippingFirst(arr) == reduce(arr, 2, 0)

\* return numbers.reduce((sum, cur) => sum + cur, 0);
sumArray(arr) == reduce(arr, 1, 0)

\* All sequences over S of length at most n
SeqsUpTo(S, n) == UNION {[1..k -> S] : k \in 0..n}

\* sumArray([1, 2, 3, 4, 5])
SampleNumbers == <<1, 2, 3, 4, 5>>

Arrays == SeqsUpTo(-MaxNum..MaxNum, MaxArrLen) \cup {SampleNumbers}

-----------------------------------------------------------------------------
(* countWordOccurrences *)

\* (char >= "a" && char <= "z") || (char >= "0" && char <= "9"), char a string
IsWordChar(char) ==
    \/ StrLeq(<<"a">>, char) /\ StrLeq(char, <<"z">>)
    \/ StrLeq(<<"0">>, char) /\ StrLeq(char, <<"9">>)

\* The for loop from index i on (1-based), with the loop's variables; what it
\* yields is the value of currentWord and count when the loop ends
RECURSIVE scan(_, _, _, _, _)
scan(str, target, i, currentWord, cnt) ==
    IF i > Len(str) THEN [currentWord |-> currentWord, count |-> cnt]
    ELSE LET char == CharToLowerCase(str[i])
         IN  IF IsWordChar(char)
             THEN scan(str, target, i + 1, currentWord \o char, cnt)
             ELSE scan(str, target, i + 1, <<>>,
                       IF currentWord = target THEN cnt + 1 ELSE cnt)

\* countWordOccurrences without the test after the loop
countWordOccurrences_noFinalTest(str, w) ==
    scan(str, toLowerCase(w), 1, <<>>, 0).count

countWordOccurrences(str, w) ==
    LET target == toLowerCase(w)
        end == scan(str, target, 1, <<>>, 0)
    IN  IF end.currentWord = target THEN end.count + 1 ELSE end.count

Alphabet ==
    {"k", "K", "1", " ", KelvinSign, CapitalIDot, CombiningDot, EAcute}
WordAlphabet == {"k", "K", "1"}

\* countWordOccurrences("TypeScript is great. I love TypeScript!", "typescript")
SampleString ==
    <<"T", "y", "p", "e", "S", "c", "r", "i", "p", "t", " ", "i", "s", " ",
      "g", "r", "e", "a", "t", ".", " ", "I", " ", "l", "o", "v", "e", " ",
      "T", "y", "p", "e", "S", "c", "r", "i", "p", "t", "!">>
SampleWord == <<"t", "y", "p", "e", "s", "c", "r", "i", "p", "t">>

StringArgs ==
    (SeqsUpTo(Alphabet, MaxStrLen) \X SeqsUpTo(WordAlphabet, MaxWordLen))
    \cup {<<SampleString, SampleWord>>}

-----------------------------------------------------------------------------
(* validateKeys *)

\* What every object literal inherits from Object.prototype
ObjectPrototype ==
    {"constructor", "hasOwnProperty", "isPrototypeOf", "propertyIsEnumerable",
     "toLocaleString", "toString", "valueOf", "__proto__",
     "__defineGetter__", "__defineSetter__", "__lookupGetter__",
     "__lookupSetter__"}

\* Object.hasOwn(obj, key) in the place of key in obj
In_ownOnly(key, o) == key \in DOMAIN o

\* key in obj: an own property, or one of the prototype chain
In(key, o) == key \in DOMAIN o \/ key \in ObjectPrototype

\* The for loop from index i on (1-based): the value returned, and the number
\* of keys tested when it returns
RECURSIVE validateKeysFrom(_, _, _)
validateKeysFrom(o, ks, i) ==
    IF i > Len(ks) THEN [ret |-> TRUE, tested |-> i - 1]
    ELSE IF ~In(ks[i], o) THEN [ret |-> FALSE, tested |-> i]
    ELSE validateKeysFrom(o, ks, i + 1)

validateKeys(o, ks) == validateKeysFrom(o, ks, 1).ret

\* const person = { name: "Alice", age: 25, email: "alice@example.com" };
person == [name |-> "Alice", age |-> 25, email |-> "alice@example.com"]

OwnNames == {"name", "age", "email", "address"}
KeyNames == OwnNames \cup {"toString"}
Objects == {[k \in S |-> "v"] : S \in SUBSET OwnNames} \cup {person}
KeyArrays == SeqsUpTo(KeyNames, MaxKeys)

-----------------------------------------------------------------------------
(* The caller *)

Functions == {"calculateShapeArea", "sumArray", "countWordOccurrences", "validateKeys"}

\* The variables of the functions that are not called hold these
IdleShape == shape = NoShape /\ area = 0 /\ thrown = "none"
IdleSum == numbers = <<>> /\ total = 0
IdleCount == inputString = <<>> /\ word = <<>> /\ count = 0
IdleKeys == obj = <<>> /\ keys = <<>> /\ valid = FALSE /\ tested = 0

Init ==
    /\ pc = "ready"
    /\ \/ /\ fn = "calculateShapeArea"
          /\ shape \in Shapes /\ area = 0 /\ thrown = "none"
          /\ IdleSum /\ IdleCount /\ IdleKeys
       \/ /\ fn = "sumArray"
          /\ numbers \in Arrays /\ total = 0
          /\ IdleShape /\ IdleCount /\ IdleKeys
       \/ /\ fn = "countWordOccurrences"
          /\ \E a \in StringArgs : inputString = a[1] /\ word = a[2]
          /\ count = 0
          /\ IdleShape /\ IdleSum /\ IdleKeys
       \/ /\ fn = "validateKeys"
          /\ obj \in Objects /\ keys \in KeyArrays /\ valid = FALSE /\ tested = 0
          /\ IdleShape /\ IdleSum /\ IdleCount

\* Whether the dimension the variant reads is negative
NegativeDimension(s) ==
    IF s.shape = "circle" THEN s.radius < 0 ELSE s.width < 0 \/ s.height < 0

\* const circleArea = calculateShapeArea(...): the call returns; no statement
\* of the function throws or assigns to its argument
CallCalculateShapeArea ==
    /\ fn = "calculateShapeArea" /\ pc = "ready"
    /\ area' = calculateShapeArea(shape)
    /\ thrown' = "none"
    /\ pc' = "done"
    /\ UNCHANGED <<fn, shape, numbers, total, inputString, word, count,
                   obj, keys, valid, tested>>

\* const ans = sumArray(...)
CallSumArray ==
    /\ fn = "sumArray" /\ pc = "ready"
    /\ total' = sumArray(numbers)
    /\ pc' = "done"
    /\ UNCHANGED <<fn, shape, area, thrown, numbers,
                   inputString, word, count, obj, keys, valid, tested>>

\* console.log(countWordOccurrences(...))
CallCountWordOccurrences ==
    /\ fn = "countWordOccurrences" /\ pc = "ready"
    /\ count' = countWordOccurrences(inputString, word)
    /\ pc' = "done"
    /\ UNCHANGED <<fn, shape, area, thrown, numbers, total,
                   inputString, word, obj, keys, valid, tested>>

\* console.log(validateKeys(...))
CallValidateKeys ==
    /\ fn = "validateKeys" /\ pc = "ready"
    /\ valid' = validateKeys(obj, keys)
    /\ tested' = validateKeysFrom(obj, keys, 1).tested
    /\ pc' = "done"
    /\ UNCHANGED <<fn, shape, area, thrown, numbers, total,
                   inputString, word, count, obj, keys>>

Next ==
    \/ CallCalculateShapeArea
    \/ CallSumArray
    \/ CallCountWordOccurrences
    \/ CallValidateKeys

Spec == Init /\ [][Next]_vars

-----------------------------------------------------------------------------
(* Properties of calculateShapeArea *)

Returned == fn = "calculateShapeArea" /\ pc = "done"

\* C1: for a circle of radius >= 0 the call returns pi * radius^2 rounded to 2
\* decimals: a whole number n of hundredths with n - 1/2 <= 100 pi radius^2
\* < n + 1/2; for { shape: "circle", radius: 5 } it returns 78.54.
C1_CircleAreaRounded ==
    (Returned /\ shape.shape = "circle" /\ shape.radius >= 0) =>
        LET x == PiTimes(Pow2(shape.radius))
            half == Hundredth \div 2
        IN  /\ thrown = "none"
            /\ area % Hundredth = 0
            /\ area - half <= x
            /\ x < area + half
            /\ (shape = SampleCircle => area = Dec(78, 54))

\* The sample circle's call has returned 78.54, which is pi * 25 = 78.5398...
\* rounded up in the second decimal
C1_Witness == Returned /\ shape = SampleCircle /\ area = Dec(78, 54)

\* C2: for a rectangle of width >= 0 and height >= 0 the call returns exactly
\* width * height, with no rounding; for width 4 and height 6 it returns 24.
C2_RectangleAreaExact ==
    (Returned /\ shape.shape = "rectangle" /\ shape.width >= 0 /\ shape.height >= 0) =>
        /\ thrown = "none"
        /\ area * Unit = shape.width * shape.height
        /\ (shape = SampleRectangle => area = 24 * Unit)

\* A rectangle's call has returned an area that has more than 2 decimals
\* (0.5 * 0.25 = 0.125)
C2_Witness ==
    /\ Returned /\ shape.shape = "rectangle"
    /\ shape.width = 2 * Quarter /\ shape.height = Quarter
    /\ area * 8 = Unit

\* C3: a negative radius, width or height makes the call fail with
\* InvalidArgument, and no area is returned.
C3_NegativeRaisesInvalidArgument ==
    (Returned /\ NegativeDimension(shape)) => thrown = "InvalidArgument"

\* The values a field may be overwritten with
FieldValues == {q * Quarter : q \in -2..2}

\* C8: only the tag "circle" is tested.  For every other tag the call returns
\* width * height and radius is not read: the result is the same whatever
\* radius holds, and the same when the field is absent.  For the tag "circle"
\* width and height are not read.
C8_OnlyCircleTagTested ==
    Returned =>
        IF shape.shape # "circle"
        THEN /\ area * Unit = shape.width * shape.height
             /\ "radius" \in DOMAIN shape =>
                    \A v \in FieldValues :
                        calculateShapeArea([shape EXCEPT !.radius = v]) = area
             /\ calculateShapeArea([f \in DOMAIN shape \ {"radius"} |-> shape[f]]) = area
        ELSE /\ "width" \in DOMAIN shape =>
                    \A v \in FieldValues, w \in FieldValues :
                        calculateShapeArea([shape EXCEPT !.width = v, !.height = w]) = area
             /\ calculateShapeArea([f \in {"shape", "radius"} |-> shape[f]]) = area

\* A call with the tag "triangle" and a radius has returned width * height
C8_Witness ==
    /\ Returned /\ shape.shape = "triangle"
    /\ "radius" \in DOMAIN shape /\ shape.radius # 0
    /\ shape.width = 4 * Unit /\ shape.height = 6 * Unit /\ area = 24 * Unit

-----------------------------------------------------------------------------
(* Properties of sumArray *)

\* The sum of the elements, from the last one back
RECURSIVE SumOf(_)
SumOf(arr) ==
    IF arr = <<>> THEN 0 ELSE SumOf(SubSeq(arr, 1, Len(arr) - 1)) + arr[Len(arr)]

\* C7: sumArray returns the sum of all elements, 0 for the empty array, and
\* leaves the array as it is.
C7_SumArray ==
    [][(fn = "sumArray" /\ pc = "ready" /\ pc' = "done") =>
        /\ total' = SumOf(numbers)
        /\ (numbers = <<>> => total' = 0)
        /\ \A x \in -MaxNum..MaxNum :
               sumArray(Append(numbers, x)) = total' + x
        /\ numbers' = numbers]_vars

\* sumArray([1, 2, 3, 4, 5]) has returned 15
C7_Witness ==
    fn = "sumArray" /\ pc = "done" /\ numbers = SampleNumbers /\ total = 15

-----------------------------------------------------------------------------
(* Properties of countWordOccurrences *)

Counted == fn = "countWordOccurrences" /\ pc = "done"

IsLetter(c) ==
    \/ Code(c) >= Code("A") /\ Code(c) <= Code("Z")
    \/ Code(c) >= Code("a") /\ Code(c) <= Code("z")

\* A letter a-z or A-Z, or a digit
IsAlphanumeric(c) == IsLetter(c) \/ IsDigit(c)

\* A word character: a letter a-z or A-Z, a digit, the Kelvin sign or capital
\* I with dot above
IsWordCharacter(c) == IsAlphanumeric(c) \/ c \in {KelvinSign, CapitalIDot}

\* Equal, or the two cases of one letter
SameIgnoringCase(c, d) ==
    \/ c = d
    \/ IsLetter(c) /\ IsLetter(d) /\ Abs(Code(c) - Code(d)) = 32

\* Whether the character c of inputString stands for the character d of word:
\* the same letter or digit, case ignored, the Kelvin sign standing for "k";
\* capital I with dot above stands for no letter or digit
StandsFor(c, d) ==
    \/ IsAlphanumeric(c) /\ SameIgnoringCase(c, d)
    \/ c = KelvinSign /\ d \in {"k", "K"}

\* The maximal runs of str, as <<first, last>>, of the characters Holds is true of
MaximalRuns(str, Holds(_)) ==
    {r \in (1..Len(str)) \X (1..Len(str)) :
        /\ r[1] <= r[2]
        /\ \A k \in r[1]..r[2] : Holds(str[k])
        /\ r[1] = 1 \/ ~Holds(str[r[1] - 1])
        /\ r[2] = Len(str) \/ ~Holds(str[r[2] + 1])}

\* The maximal alphanumeric runs that equal w, case ignored
MatchingRuns(str, w) ==
    {r \in MaximalRuns(str, IsAlphanumeric) :
        /\ r[2] - r[1] + 1 = Len(w)
        /\ \A k \in 1..Len(w) : SameIgnoringCase(str[r[1] + k - 1], w[k])}

\* The maximal runs of word characters that stand for w
MatchingWordRuns(str, w) ==
    {r \in MaximalRuns(str, IsWordCharacter) :
        /\ r[2] - r[1] + 1 = Len(w)
        /\ \A k \in 1..Len(w) : StandsFor(str[r[1] + k - 1], w[k])}

\* C5, as stated: for every inputString and every word of letters and digits,
\* the empty word among them, the call returns the number of maximal runs of
\* letters a-z/A-Z and digits of inputString that equal word, case ignored.
C5_CountsMatchingRuns ==
    Counted => count = Cardinality(MatchingRuns(inputString, word))

\* C5, amended: for every inputString and every non-empty word of letters
\* a-z/A-Z and digits the call returns the number of maximal runs of word
\* characters of inputString that equal word, case ignored.  The word
\* characters are the letters a-z/A-Z, the digits, the Kelvin sign (U+212A),
\* which counts as "k", and capital I with dot above (U+0130), which lengthens
\* a run and equals no letter; every other character separates runs.  A run
\* that only holds word is not counted, the last run is counted with no
\* separator after it, and the sample gives 2.
C5_CountsMatchingWordRuns ==
    (Counted /\ word # <<>>) =>
        /\ count = Cardinality(MatchingWordRuns(inputString, word))
        /\ (inputString = SampleString /\ word = SampleWord) => count = 2

\* The Kelvin sign is counted as the word "k"; the accented letter separates
\* it from the last run "K", which is counted with no separator after it
C5_Witness ==
    /\ Counted /\ word = <<"k">> /\ count = 2
    /\ inputString = <<KelvinSign, EAcute, "K">>

-----------------------------------------------------------------------------
(* Properties of validateKeys *)

Validated == fn = "validateKeys" /\ pc = "done"

\* The indices of the keys that are no property of obj
Missing == {i \in 1..Len(keys) : keys[i] \notin DOMAIN obj \cup ObjectPrototype}

\* C6: validateKeys returns true exactly when every key is a property of obj,
\* own or inherited; it returns false at the first missing key, testing none
\* after it, and true for no keys.  For person, ["name", "age"] gives true and
\* ["name", "address"] false.
C6_ValidateKeys ==
    Validated =>
        /\ valid = (Missing = {})
        /\ valid => tested = Len(keys)
        /\ ~valid => tested \in Missing /\ \A i \in Missing : tested <= i
        /\ keys = <<>> => valid
        /\ (obj = person /\ keys = <<"name", "age">>) => valid
        /\ (obj = person /\ keys = <<"name", "address">>) => ~valid

\* For person a missing key was met first, and the key after it was not tested
C6_Witness ==
    /\ Validated /\ obj = person /\ keys = <<"name", "address", "age">>
    /\ ~valid /\ tested = 2

====
